---- MODULE Spec2Model ----
(***************************************************************************)
(* Model of networking-bgpvpn:                                             *)
(*   - bgpvpn_dashboard/dashboards/project/bgpvpn/workflows.py             *)
(*       UpdateBgpVpnAssociations.handle / _handle_type  (specification    *)
(*       Spec): the reconciliation of a BGP VPN's network and router       *)
(*       associations, one step per call of the association API.           *)
(*   - networking_bgpvpn/neutron/db/bgpvpn_db.py                           *)
(*       BGPVPNPluginDb (specification DbSpec): create / get / update /    *)
(*       delete of BGP VPN connection rows, and the route-target list      *)
(*       serialisation _rtrd_list2str / _rtrd_str2list (specification      *)
(*       RtrdSpec).                                                        *)
(***************************************************************************)
EXTENDS Integers, Sequences, FiniteSets, TLC

(***************************************************************************)
(* Bounds.                                                                 *)
(***************************************************************************)
\* Number of routers / networks of the tenant.
NumResources == 2
\* Longest desired-association list a request carries (it may repeat an id).
MaxDesiredLen == 2

\* Longest route-target string and longest route-target list given to the
\* serialisation on its own.
MaxStrLen == 2
MaxListLen == 2
\* Number of calls made on the table in one behaviour.
MaxOps == 3

Resources == 1..NumResources

(***************************************************************************)
(* workflows.py : UpdateBgpVpnAssociations                                 *)
(***************************************************************************)
VARIABLES
    assocs,            \* backend: per association type, the rows {id, res} of the VPN
    assocs0,           \* history: the backend rows when handle was entered
    data,              \* the request data: the association keys present, each with its list
    pc,                \* position of handle / _handle_type
    association_type,  \* _handle_type's argument
    old_associations,  \* _handle_type local (resource ids listed at entry)
    to_add_associations,
    to_remove_associations,
    added,             \* members of to_add_associations the add loop has passed
    removed,           \* members of to_remove_associations the remove loop has passed
    resource,          \* the remove loop's current resource
    asso_list,         \* rows of the remove loop's listing that match resource, not yet deleted
    action,            \* handle local
    result,            \* handle's return value ("none" until it returns)
    log                \* history: the association API calls issued, in order

wfVars == <<assocs, assocs0, data, pc, association_type, old_associations,
            to_add_associations, to_remove_associations, added, removed,
            resource, asso_list, action, result, log>>

(***************************************************************************)
(* bgpvpn_db.py : the bgpvpn_connections table and the calls on it         *)
(***************************************************************************)
VARIABLES
    table,      \* the rows of bgpvpn_connections
    created,    \* history: for each row ever inserted, the id and tenant_id create gave it
    nextId,     \* the next value of uuidutils.generate_uuid()
    nops,       \* number of calls made
    call,       \* the last call: its name and arguments
    error,      \* the exception the last call raised ("none" if it returned)
    ret,        \* what the last call returned
    tablePre    \* history: the rows before the last call

dbVars == <<table, created, nextId, nops, call, error, ret, tablePre>>

(***************************************************************************)
(* bgpvpn_db.py : _rtrd_list2str / _rtrd_str2list on their own             *)
(***************************************************************************)
VARIABLES
    rt_pc,      \* "list", "str" or "back": what has been computed so far
    rt_list,    \* the list given to _rtrd_list2str
    rt_str,     \* its result
    rt_back     \* _rtrd_str2list of that result

rtVars == <<rt_pc, rt_list, rt_str, rt_back>>

(***************************************************************************)
(* workflows.py : two UpdateBgpVpnAssociations requests on the same VPN    *)
(* and association type, their API calls interleaved                       *)
(***************************************************************************)
VARIABLES
    rc_rows,    \* backend: the association rows {id, res} of the VPN, of that type
    rc_rows0,   \* history: the rows before either request
    rc          \* per request: its desired list and the locals of handle / _handle_type

rcVars == <<rc_rows, rc_rows0, rc>>

(***************************************************************************)
(* workflows.py : RouterAssociation.handle                                 *)
(***************************************************************************)
VARIABLES
    ra_rows,     \* backend: the router association rows of the VPN
    ra_rows0,    \* history: the rows before the call
    ra_context,  \* context: router_resource, with_parameters, advertise_extra_routes
    ra_pc,       \* position in handle
    asso_id,     \* local of handle (0: not bound yet)
    ra_calls,    \* history: the API calls made, in order
    ra_result,   \* what handle returned, "none" before it returns
    ra_raised    \* the exception that left handle, "none" if none did

raVars == <<ra_rows, ra_rows0, ra_context, ra_pc, asso_id, ra_calls,
            ra_result, ra_raised>>

vars == <<wfVars, dbVars, rtVars, rcVars, raVars>>

AssociationTypes == {"network", "router"}

\* "%ss_association" % association_type
DataKey(t) == t \o "s_association"

DataKeys == {DataKey(t) : t \in AssociationTypes}

\* The member lists UpdateMembersStep.contribute puts in the context, an id may
\* occur more than once.  _handle_type reads a list only through set(), so the lists
\* are taken in one order of their members.
DesiredLists ==
    {s \in UNION {[1..n -> Resources] : n \in 0..MaxDesiredLen} :
        \A i \in 1..(Len(s) - 1) : s[i] <= s[i + 1]}

\* A request carries any subset of the two keys.
Requests == UNION {[K -> DesiredLists] : K \in SUBSET DataKeys}

Range(s) == {s[i] : i \in DOMAIN s}

\* getattr(association, '%s_id' % association_type) for association in rows
ResourceIds(rows) == {a.res : a \in rows}

\* The backend keeps one association row per (VPN, resource); the rows that exist
\* before the request carry ids distinct from the ids given to new rows.
ExistingRows(S) == {[id |-> NumResources + r, res |-> r] : r \in S}

\* The id of a new association row: an id no row of the type carries.
FreshId(rows) ==
    CHOOSE i \in 1..(Cardinality(rows) + 1) :
        /\ i \notin {a.id : a \in rows}
        /\ \A j \in 1..(i - 1) : j \in {a.id : a \in rows}

Call(op, t, r, id, ok) == [op |-> op, type |-> t, res |-> r, id |-> id, ok |-> ok]

WfInit ==
    /\ assocs \in [AssociationTypes -> {ExistingRows(S) : S \in SUBSET Resources}]
    /\ assocs0 = assocs
    /\ data \in Requests
    /\ pc = "if_network"
    /\ association_type = "none"
    /\ old_associations = {}
    /\ to_add_associations = {}
    /\ to_remove_associations = {}
    /\ added = {}
    /\ removed = {}
    /\ resource = 0
    /\ asso_list = {}
    /\ action = FALSE
    /\ result = "none"
    /\ log = <<>>

\* handle's "except Exception: return False"
ReturnFalse ==
    /\ pc' = "returned"
    /\ result' = FALSE

\* Mutant of ToRemove: every listed association is removed, desired or not.
ToRemove_All(old, associations) == old

\* to_remove_associations = list(set(old_associations) - set(associations))
ToRemove(old, associations) == old \ Range(associations)

\* Mutant of ToAdd: every desired id is added, associated already or not.
ToAdd_NoDifference(old, associations) == Range(associations)

\* to_add_associations = list(set(associations) - set(old_associations))
ToAdd(old, associations) == Range(associations) \ old

\* if 'networks_association' in data: / if 'routers_association' in data:
EnterType(t) ==
    /\ pc = "if_" \o t
    /\ IF DataKey(t) \in DOMAIN data
          THEN /\ pc' = "list"
               /\ association_type' = t
          ELSE /\ pc' = (IF t = "network" THEN "if_router" ELSE "if_not_action")
               /\ UNCHANGED association_type
    /\ UNCHANGED <<assocs, assocs0, data, old_associations, to_add_associations,
                   to_remove_associations, added, removed, resource, asso_list,
                   action, result, log>>
    /\ UNCHANGED <<dbVars, rtVars, rcVars, raVars>>

\* Mutant of ListOld: a failing listing is swallowed and read as an empty listing.
ListOld_Swallow(ok) ==
    /\ pc = "list"
    /\ log' = Append(log, Call("list", association_type, 0, 0, ok))
    /\ old_associations' = (IF ok THEN ResourceIds(assocs[association_type]) ELSE {})
    /\ to_remove_associations' =
           ToRemove(old_associations', data[DataKey(association_type)])
    /\ to_add_associations' =
           ToAdd(old_associations', data[DataKey(association_type)])
    /\ added' = {}
    /\ removed' = {}
    /\ pc' = "add"
    /\ UNCHANGED <<assocs, assocs0, data, association_type, resource, asso_list,
                   action, result>>
    /\ UNCHANGED <<dbVars, rtVars, rcVars, raVars>>

\* _handle_type: the first listing and the two set differences.
ListOld(ok) ==
    /\ pc = "list"
    /\ log' = Append(log, Call("list", association_type, 0, 0, ok))
    /\ IF ok
          THEN /\ old_associations' = ResourceIds(assocs[association_type])
               /\ to_remove_associations' =
                      ToRemove(old_associations', data[DataKey(association_type)])
               /\ to_add_associations' =
                      ToAdd(old_associations', data[DataKey(association_type)])
               /\ added' = {}
               /\ removed' = {}
               /\ pc' = "add"
               /\ UNCHANGED result
          ELSE /\ ReturnFalse
               /\ UNCHANGED <<old_associations, to_add_associations,
                              to_remove_associations, added, removed>>
    /\ UNCHANGED <<assocs, assocs0, data, association_type, resource, asso_list, action>>
    /\ UNCHANGED <<dbVars, rtVars, rcVars, raVars>>

\* Mutant of CreateAsso: a failing create is swallowed and the loop goes on.
CreateAsso_Continue(r, ok) ==
    /\ pc = "add"
    /\ r \in to_add_associations \ added
    /\ log' = Append(log, Call("create", association_type, r, 0, ok))
    /\ assocs' = (IF ok THEN [assocs EXCEPT ![association_type] =
                                @ \cup {[id |-> FreshId(@), res |-> r]}]
                        ELSE assocs)
    /\ added' = added \cup {r}
    /\ UNCHANGED <<pc, result>>
    /\ UNCHANGED <<assocs0, data, association_type, old_associations,
                   to_add_associations, to_remove_associations, removed, resource,
                   asso_list, action>>
    /\ UNCHANGED <<dbVars, rtVars, rcVars, raVars>>

\* One turn of "for resource in to_add_associations": create_asso(request, bgpvpn_id, **params)
CreateAsso(r, ok) ==
    /\ pc = "add"
    /\ r \in to_add_associations \ added
    /\ log' = Append(log, Call("create", association_type, r, 0, ok))
    /\ IF ok
          THEN /\ assocs' = [assocs EXCEPT ![association_type] =
                                @ \cup {[id |-> FreshId(@), res |-> r]}]
               /\ added' = added \cup {r}
               /\ UNCHANGED <<pc, result>>
          ELSE /\ ReturnFalse
               /\ UNCHANGED <<assocs, added>>
    /\ UNCHANGED <<assocs0, data, association_type, old_associations,
                   to_add_associations, to_remove_associations, removed, resource,
                   asso_list, action>>
    /\ UNCHANGED <<dbVars, rtVars, rcVars, raVars>>

\* Mutant of AddDone: the add loop is left before it has passed every member.
AddDone_Early ==
    /\ pc = "add"
    /\ pc' = "remove"
    /\ UNCHANGED <<assocs, assocs0, data, association_type, old_associations,
                   to_add_associations, to_remove_associations, added, removed,
                   resource, asso_list, action, result, log>>
    /\ UNCHANGED <<dbVars, rtVars, rcVars, raVars>>

\* The add loop is over (or "if len(to_add_associations) > 0" is false).
AddDone ==
    /\ pc = "add"
    /\ to_add_associations \ added = {}
    /\ pc' = "remove"
    /\ UNCHANGED <<assocs, assocs0, data, association_type, old_associations,
                   to_add_associations, to_remove_associations, added, removed,
                   resource, asso_list, action, result, log>>
    /\ UNCHANGED <<dbVars, rtVars, rcVars, raVars>>

\* One turn of "for resource in to_remove_associations": asso_list = list_method(...)
ListForRemove(r, ok) ==
    /\ pc = "remove"
    /\ r \in to_remove_associations \ removed
    /\ log' = Append(log, Call("list", association_type, r, 0, ok))
    /\ IF ok
          THEN LET matching == {a \in assocs[association_type] : a.res = r}
               IN  /\ resource' = r
                   /\ asso_list' = matching
                   /\ IF matching = {}
                         THEN /\ removed' = removed \cup {r}
                              /\ UNCHANGED pc
                         ELSE /\ pc' = "delete"
                              /\ UNCHANGED removed
                   /\ UNCHANGED result
          ELSE /\ ReturnFalse
               /\ UNCHANGED <<resource, asso_list, removed>>
    /\ UNCHANGED <<assocs, assocs0, data, association_type, old_associations,
                   to_add_associations, to_remove_associations, added, action>>
    /\ UNCHANGED <<dbVars, rtVars, rcVars, raVars>>

\* delete_method(request, association.id, bgpvpn_id) for a matching row of the listing
DeleteAsso(a, ok) ==
    /\ pc = "delete"
    /\ a \in asso_list
    /\ LET done == ok /\ a \in assocs[association_type]
       IN  /\ log' = Append(log, Call("delete", association_type, a.res, a.id, done))
           /\ IF done
                 THEN /\ assocs' = [assocs EXCEPT ![association_type] = @ \ {a}]
                      /\ asso_list' = asso_list \ {a}
                      /\ IF asso_list' = {}
                            THEN /\ removed' = removed \cup {resource}
                                 /\ pc' = "remove"
                            ELSE UNCHANGED <<removed, pc>>
                      /\ UNCHANGED result
                 ELSE /\ ReturnFalse
                      /\ UNCHANGED <<assocs, asso_list, removed>>
    /\ UNCHANGED <<assocs0, data, association_type, old_associations,
                   to_add_associations, to_remove_associations, added, resource, action>>
    /\ UNCHANGED <<dbVars, rtVars, rcVars, raVars>>

\* _handle_type returns; handle sets action = True and goes on to the next key.
TypeDone ==
    /\ pc = "remove"
    /\ to_remove_associations \ removed = {}
    /\ action' = TRUE
    /\ pc' = (IF association_type = "network" THEN "if_router" ELSE "if_not_action")
    /\ UNCHANGED <<assocs, assocs0, data, association_type, old_associations,
                   to_add_associations, to_remove_associations, added, removed,
                   resource, asso_list, result, log>>
    /\ UNCHANGED <<dbVars, rtVars, rcVars, raVars>>

\* Mutant of HandleEnd: the "if not action" test is missing.
HandleEnd_NoActionTest ==
    /\ pc = "if_not_action"
    /\ pc' = "returned"
    /\ result' = TRUE
    /\ UNCHANGED <<assocs, assocs0, data, association_type, old_associations,
                   to_add_associations, to_remove_associations, added, removed,
                   resource, asso_list, action, log>>
    /\ UNCHANGED <<dbVars, rtVars, rcVars, raVars>>

\* if not action: raise Exception(...) / return True
HandleEnd ==
    /\ pc = "if_not_action"
    /\ pc' = "returned"
    /\ result' = action
    /\ UNCHANGED <<assocs, assocs0, data, association_type, old_associations,
                   to_add_associations, to_remove_associations, added, removed,
                   resource, asso_list, action, log>>
    /\ UNCHANGED <<dbVars, rtVars, rcVars, raVars>>

WfNext ==
    \/ \E t \in AssociationTypes : EnterType(t)
    \/ \E ok \in BOOLEAN : ListOld(ok)
    \/ \E r \in Resources, ok \in BOOLEAN : CreateAsso(r, ok)
    \/ AddDone
    \/ \E r \in Resources, ok \in BOOLEAN : ListForRemove(r, ok)
    \/ \E a \in asso_list, ok \in BOOLEAN : DeleteAsso(a, ok)
    \/ TypeDone
    \/ HandleEnd

(***************************************************************************)
(* bgpvpn_db.py : route-target list serialisation.  A Python string is the *)
(* sequence of its characters; '' is the empty sequence.                   *)
(***************************************************************************)
Chars == {"a", ","}

Strings(n) == UNION {[1..k -> Chars] : k \in 0..n}

Lists(n, m) == UNION {[1..k -> Strings(m)] : k \in 0..n}

\* ','.join(list)
RECURSIVE Join(_)
Join(list) ==
    IF Len(list) = 0 THEN <<>>
    ELSE IF Len(list) = 1 THEN list[1]
    ELSE list[1] \o <<",">> \o Join(Tail(list))

\* str.split(',')
RECURSIVE Split(_)
Split(str) ==
    LET commas == {i \in 1..Len(str) : str[i] = ","}
    IN  IF commas = {}
           THEN <<str>>
           ELSE LET i == CHOOSE c \in commas : \A d \in commas : c <= d
                IN  <<SubSeq(str, 1, i - 1)>> \o Split(SubSeq(str, i + 1, Len(str)))

RECURSIVE Concat(_)
Concat(list) == IF Len(list) = 0 THEN <<>> ELSE list[1] \o Concat(Tail(list))

\* Mutant of rtrd_list2str: the elements are joined with no separator.
rtrd_list2str_NoSeparator(list) ==
    IF Len(list) = 0 THEN <<>> ELSE Concat(list)

\* _rtrd_list2str: "if not list: return ''" (an empty list, or the '' default).
rtrd_list2str(list) ==
    IF Len(list) = 0 THEN <<>> ELSE Join(list)

\* Mutant of rtrd_str2list: the "if not str" test is missing.
rtrd_str2list_NoEmptyTest(str) == Split(str)

\* _rtrd_str2list
rtrd_str2list(str) ==
    IF Len(str) = 0 THEN <<>> ELSE Split(str)

RtInit ==
    /\ rt_pc = "list"
    /\ rt_list \in Lists(MaxListLen, MaxStrLen)
    /\ rt_str = <<>>
    /\ rt_back = <<>>

\* The serialisation is not exercised.
RtOff ==
    /\ rt_pc = "off"
    /\ rt_list = <<>>
    /\ rt_str = <<>>
    /\ rt_back = <<>>

Serialize ==
    /\ rt_pc = "list"
    /\ rt_str' = rtrd_list2str(rt_list)
    /\ rt_pc' = "str"
    /\ UNCHANGED <<rt_list, rt_back>>
    /\ UNCHANGED <<wfVars, dbVars, rcVars, raVars>>

Deserialize ==
    /\ rt_pc = "str"
    /\ rt_back' = rtrd_str2list(rt_str)
    /\ rt_pc' = "back"
    /\ UNCHANGED <<rt_list, rt_str>>
    /\ UNCHANGED <<wfVars, dbVars, rcVars, raVars>>

RtNext ==
    \/ Serialize
    \/ Deserialize

(***************************************************************************)
(* bgpvpn_db.py : BGPVPNPluginDb.                                          *)
(***************************************************************************)
ListFields == {"route_targets", "import_targets", "export_targets", "route_distinguishers"}

ScalarFields == {"name", "type", "network_id", "auto_aggregate"}

\* The keys of the dict _make_bgpvpn_connection_dict builds, id and tenant_id aside.
Fields == ScalarFields \cup ListFields

Columns == {"id", "tenant_id"} \cup Fields

\* Two values of each attribute; strings are sequences of characters.
Value(k, v) ==
    CASE k = "name" -> (IF v = 1 THEN "vpn1" ELSE "vpn2")
      [] k = "type" -> (IF v = 1 THEN "l3" ELSE "l2")
      [] k = "network_id" -> (IF v = 1 THEN "net1" ELSE "net2")
      [] k = "auto_aggregate" -> (v = 1)
      [] k = "tenant_id" -> (IF v = 1 THEN "t1" ELSE "t2")
      [] k = "id" -> v - 1
      [] OTHER -> (IF v = 1 THEN << <<"a">> >> ELSE << <<"a">>, <<"b">> >>)

Variants == 1..2

Tenants == {Value("tenant_id", v) : v \in Variants}

\* The ids a caller may name: 0, which generate_uuid never returns, and the ids of
\* the rows an earlier call can have inserted.
Ids == 0..(MaxOps - 1)

\* The 'bgpvpn_connection' dicts given to create: every attribute, or all but one,
\* or route_targets empty.
CreateBodies ==
    UNION {
        {[k \in Fields |-> Value(k, v)]}
        \cup {[k \in Fields \ {f} |-> Value(k, v)] : f \in Fields}
        \cup {[k \in Fields |-> IF k = "route_targets" THEN <<>> ELSE Value(k, v)]}
        : v \in Variants}

\* The partial dicts given to update: no key, one key, the list keys, the scalar
\* keys, or every column.
UpdateKeySets ==
    {{}} \cup {{k} : k \in Columns} \cup {ListFields, ScalarFields, Columns}

UpdateBodies == {[k \in K |-> Value(k, v)] : K \in UpdateKeySets, v \in Variants}

NoCall == [op |-> "none"]

DbInit ==
    /\ table = {}
    /\ created = {}
    /\ nextId = 1
    /\ nops = 0
    /\ call = NoCall
    /\ error = "none"
    /\ ret = "none"
    /\ tablePre = {}

\* The table is not exercised.
DbOff ==
    /\ table = {}
    /\ created = {}
    /\ nextId = 1
    /\ nops = MaxOps
    /\ call = NoCall
    /\ error = "none"
    /\ ret = "none"
    /\ tablePre = {}

\* _make_bgpvpn_connection_dict(bgpvpn_connection), fields=None
make_bgpvpn_connection_dict(row) ==
    [k \in Columns |-> IF k \in ListFields THEN rtrd_str2list(row[k]) ELSE row[k]]

\* CommonDbMixin._get_by_id: query.filter(model.id == id).one()
RowsById(id) == {r \in table : r.id = id}

\* Every call: the history variables and the call counter.
Record(op, args) ==
    /\ nops < MaxOps
    /\ nops' = nops + 1
    /\ call' = [op |-> op] @@ args
    /\ tablePre' = table

\* A call that raises leaves the session's rows as they were.
Raise(e) ==
    /\ error' = e
    /\ ret' = "none"
    /\ UNCHANGED <<table, created, nextId>>

\* create_bgpvpn_connection(context, {'bgpvpn_connection': body}); tenant is what
\* _get_tenant_id_for_create resolves from the context.  A subscript on a key the
\* dict lacks raises KeyError.
create_bgpvpn_connection(tenant, body) ==
    /\ Record("create", [tenant |-> tenant, body |-> body])
    /\ IF "route_targets" \notin DOMAIN body
          THEN Raise("KeyError")
       ELSE IF Len(body["route_targets"]) = 0
          THEN Raise("BGPVPNConnectionMissingRouteTarget")
       ELSE IF ~({"import_targets", "export_targets"} \cup ScalarFields \subseteq DOMAIN body)
          THEN Raise("KeyError")
       ELSE LET \* oid: the identity of the mapped object, not a column
                row ==
                  [k \in Columns \cup {"oid"} |->
                      CASE k \in {"id", "oid"} -> nextId
                        [] k = "tenant_id" -> tenant
                        [] k = "route_distinguishers" ->
                               rtrd_list2str(IF k \in DOMAIN body THEN body[k] ELSE <<>>)
                        [] k \in ListFields \ {"route_distinguishers"} ->
                               rtrd_list2str(body[k])
                        [] OTHER -> body[k]]
            IN  /\ table' = table \cup {row}
                /\ created' = created \cup
                       {[oid |-> row.oid, id |-> row.id, tenant_id |-> row.tenant_id]}
                /\ nextId' = nextId + 1
                /\ error' = "none"
                /\ ret' = make_bgpvpn_connection_dict(row)
    /\ UNCHANGED <<wfVars, rtVars, rcVars, raVars>>

\* get_bgpvpn_connection(context, id)
get_bgpvpn_connection(id) ==
    /\ Record("get", [id |-> id])
    /\ IF RowsById(id) = {}
          THEN Raise("BGPVPNConnectionNotFound")
          ELSE /\ error' = "none"
               /\ ret' = make_bgpvpn_connection_dict(CHOOSE r \in RowsById(id) : TRUE)
               /\ UNCHANGED <<table, created, nextId>>
    /\ UNCHANGED <<wfVars, rtVars, rcVars, raVars>>

\* Mutant of UpdatedRow: the four list columns are rewritten whether the dict names
\* them or not.
UpdatedRow_AllLists(row, body) ==
    IF DOMAIN body = {}
       THEN row
       ELSE [k \in DOMAIN row |->
                IF k \in ListFields
                   THEN rtrd_list2str(IF k \in DOMAIN body THEN body[k] ELSE <<>>)
                   ELSE IF k \in DOMAIN body THEN body[k] ELSE row[k]]

\* update_bgpvpn_connection: "if bgpvpn_conn:", the four "if '...' in bgpvpn_conn"
\* and bgpvpn_connection_db.update(bgpvpn_conn), which sets every key of the dict.
UpdatedRow(row, body) ==
    IF DOMAIN body = {}
       THEN row
       ELSE [k \in DOMAIN row |->
                IF k \in DOMAIN body
                   THEN IF k \in ListFields THEN rtrd_list2str(body[k]) ELSE body[k]
                   ELSE row[k]]

\* update_bgpvpn_connection(context, id, {'bgpvpn_connection': body}); the flush of
\* an id another row holds fails and the transaction is rolled back.
update_bgpvpn_connection(id, body) ==
    /\ Record("update", [id |-> id, body |-> body])
    /\ IF RowsById(id) = {}
          THEN Raise("BGPVPNConnectionNotFound")
          ELSE LET row == CHOOSE r \in RowsById(id) : TRUE
                   new == UpdatedRow(row, body)
               IN  IF \E r \in table \ {row} : r.id = new.id
                      THEN Raise("DBError")
                      ELSE /\ table' = (table \ {row}) \cup {new}
                           /\ error' = "none"
                           /\ ret' = make_bgpvpn_connection_dict(new)
                           /\ UNCHANGED <<created, nextId>>
    /\ UNCHANGED <<wfVars, rtVars, rcVars, raVars>>

\* delete_bgpvpn_connection(context, id): _get_by_id is called directly, so its
\* NoResultFound is not translated.
delete_bgpvpn_connection(id) ==
    /\ Record("delete", [id |-> id])
    /\ IF RowsById(id) = {}
          THEN Raise("NoResultFound")
          ELSE LET row == CHOOSE r \in RowsById(id) : TRUE
               IN  /\ table' = table \ {row}
                   /\ error' = "none"
                   /\ ret' = row
                   /\ UNCHANGED <<created, nextId>>
    /\ UNCHANGED <<wfVars, rtVars, rcVars, raVars>>

DbNext ==
    \/ \E tenant \in Tenants, body \in CreateBodies : create_bgpvpn_connection(tenant, body)
    \/ \E id \in Ids : get_bgpvpn_connection(id)
    \/ \E id \in Ids, body \in UpdateBodies : update_bgpvpn_connection(id, body)
    \/ \E id \in Ids : delete_bgpvpn_connection(id)

(***************************************************************************)
(* workflows.py : UpdateBgpVpnAssociations.handle run by two requests at   *)
(* once.  Each request carries the key of the same association type; the   *)
(* backend serialises the API calls, in any order.                         *)
(***************************************************************************)
Callers == {"A", "B"}

\* The locals of one request at the entry of _handle_type.
RcEntry(associations) ==
    [pc |-> "list",
     associations |-> associations,
     old_associations |-> {},
     to_add_associations |-> {},
     to_remove_associations |-> {},
     added |-> {},
     removed |-> {},
     resource |-> 0,
     asso_list |-> {},
     result |-> "none"]

RcInit ==
    /\ rc_rows \in {ExistingRows(S) : S \in SUBSET Resources}
    /\ rc_rows0 = rc_rows
    /\ rc \in [Callers -> {RcEntry(l) : l \in DesiredLists}]

\* No request is running.
RcOff ==
    /\ rc_rows = {}
    /\ rc_rows0 = {}
    /\ rc = [c \in Callers |-> [RcEntry(<<>>) EXCEPT !.pc = "off"]]

\* handle's "except Exception: return False"
RcReturnFalse(c) == [rc EXCEPT ![c].pc = "returned", ![c].result = FALSE]

\* _handle_type: the first listing and the two set differences.
RcListOld(c, ok) ==
    /\ rc[c].pc = "list"
    /\ rc' = IF ok
                THEN [rc EXCEPT ![c].pc = "add",
                                ![c].old_associations = ResourceIds(rc_rows),
                                ![c].to_remove_associations =
                                    ToRemove(ResourceIds(rc_rows), rc[c].associations),
                                ![c].to_add_associations =
                                    ToAdd(ResourceIds(rc_rows), rc[c].associations)]
                ELSE RcReturnFalse(c)
    /\ UNCHANGED <<rc_rows, rc_rows0>>
    /\ UNCHANGED <<wfVars, dbVars, rtVars, raVars>>

\* One turn of "for resource in to_add_associations": create_asso(request, bgpvpn_id, **params)
RcCreateAsso(c, r, ok) ==
    /\ rc[c].pc = "add"
    /\ r \in rc[c].to_add_associations \ rc[c].added
    /\ IF ok
          THEN /\ rc_rows' = rc_rows \cup {[id |-> FreshId(rc_rows), res |-> r]}
               /\ rc' = [rc EXCEPT ![c].added = @ \cup {r}]
          ELSE /\ rc' = RcReturnFalse(c)
               /\ UNCHANGED rc_rows
    /\ UNCHANGED rc_rows0
    /\ UNCHANGED <<wfVars, dbVars, rtVars, raVars>>

\* The add loop is over (or "if len(to_add_associations) > 0" is false).
RcAddDone(c) ==
    /\ rc[c].pc = "add"
    /\ rc[c].to_add_associations \ rc[c].added = {}
    /\ rc' = [rc EXCEPT ![c].pc = "remove"]
    /\ UNCHANGED <<rc_rows, rc_rows0>>
    /\ UNCHANGED <<wfVars, dbVars, rtVars, raVars>>

\* Mutant of RcMatching: the remove loop takes every row of the listing.
RcMatching_AnyRow(rows, r) == rows

\* The rows of a listing the remove loop deletes: those of the resource.
RcMatching(rows, r) == {a \in rows : a.res = r}

\* One turn of "for resource in to_remove_associations": asso_list = list_method(...)
RcListForRemove(c, r, ok) ==
    /\ rc[c].pc = "remove"
    /\ r \in rc[c].to_remove_associations \ rc[c].removed
    /\ rc' = IF ok
                THEN IF RcMatching(rc_rows, r) = {}
                        THEN [rc EXCEPT ![c].resource = r,
                                        ![c].asso_list = {},
                                        ![c].removed = @ \cup {r}]
                        ELSE [rc EXCEPT ![c].resource = r,
                                        ![c].asso_list = RcMatching(rc_rows, r),
                                        ![c].pc = "delete"]
                ELSE RcReturnFalse(c)
    /\ UNCHANGED <<rc_rows, rc_rows0>>
    /\ UNCHANGED <<wfVars, dbVars, rtVars, raVars>>

\* delete_method(request, association.id, bgpvpn_id) for a matching row of the
\* listing; the delete of a row that is gone raises.
RcDeleteAsso(c, a, ok) ==
    /\ rc[c].pc = "delete"
    /\ a \in rc[c].asso_list
    /\ IF ok /\ a \in rc_rows
          THEN /\ rc_rows' = rc_rows \ {a}
               /\ rc' = IF rc[c].asso_list \ {a} = {}
                           THEN [rc EXCEPT ![c].asso_list = {},
                                           ![c].removed = @ \cup {rc[c].resource},
                                           ![c].pc = "remove"]
                           ELSE [rc EXCEPT ![c].asso_list = @ \ {a}]
          ELSE /\ rc' = RcReturnFalse(c)
               /\ UNCHANGED rc_rows
    /\ UNCHANGED rc_rows0
    /\ UNCHANGED <<wfVars, dbVars, rtVars, raVars>>

\* _handle_type returns, handle sets action = True and returns True.
RcTypeDone(c) ==
    /\ rc[c].pc = "remove"
    /\ rc[c].to_remove_associations \ rc[c].removed = {}
    /\ rc' = [rc EXCEPT ![c].pc = "returned", ![c].result = TRUE]
    /\ UNCHANGED <<rc_rows, rc_rows0>>
    /\ UNCHANGED <<wfVars, dbVars, rtVars, raVars>>

RcNext ==
    \/ \E c \in Callers, ok \in BOOLEAN : RcListOld(c, ok)
    \/ \E c \in Callers, r \in Resources, ok \in BOOLEAN : RcCreateAsso(c, r, ok)
    \/ \E c \in Callers : RcAddDone(c)
    \/ \E c \in Callers, r \in Resources, ok \in BOOLEAN : RcListForRemove(c, r, ok)
    \/ \E c \in Callers : \E a \in rc[c].asso_list, ok \in BOOLEAN : RcDeleteAsso(c, a, ok)
    \/ \E c \in Callers : RcTypeDone(c)

(***************************************************************************)
(* workflows.py : RouterAssociation.handle                                 *)
(***************************************************************************)
\* The interpreters the dashboard runs on: they differ in what an except
\* clause that names a module does when an exception reaches it.
Interpreters == {"python2", "python3"}

RaContexts ==
    [router_resource : Resources,
     with_parameters : BOOLEAN,
     advertise_extra_routes : BOOLEAN]

\* Router association rows that exist before the call, for some of the routers.
RaExistingRows ==
    UNION {[S -> BOOLEAN] : S \in SUBSET Resources}

RaRows(f) ==
    {[id |-> NumResources + r, res |-> r, advertise_extra_routes |-> f[r]] :
        r \in DOMAIN f}

RaInit ==
    /\ ra_rows \in {RaRows(f) : f \in RaExistingRows}
    /\ ra_rows0 = ra_rows
    /\ ra_context \in RaContexts
    /\ ra_pc = "create"
    /\ asso_id = 0
    /\ ra_calls = <<>>
    /\ ra_result = "none"
    /\ ra_raised = "none"

\* handle is not running.
RaOff ==
    /\ ra_rows = {}
    /\ ra_rows0 = {}
    /\ ra_context = [router_resource |-> 1, with_parameters |-> FALSE,
                     advertise_extra_routes |-> FALSE]
    /\ ra_pc = "off"
    /\ asso_id = 0
    /\ ra_calls = <<>>
    /\ ra_result = "none"
    /\ ra_raised = "none"

\* router_association_create(request, bgpvpn_id, router_id=router_id); the new
\* row gets the backend's default for advertise_extra_routes.  A failure is
\* caught by "except Exception", reported and handle returns False.
RaCreate(ok, default) ==
    /\ ra_pc = "create"
    /\ ra_calls' = Append(ra_calls, [op |-> "create", ok |-> ok])
    /\ IF ok
          THEN /\ ra_rows' = ra_rows \cup
                       {[id |-> FreshId(ra_rows),
                         res |-> ra_context.router_resource,
                         advertise_extra_routes |-> default]}
               /\ asso_id' = FreshId(ra_rows)
               /\ ra_pc' = "if_with_parameters"
               /\ UNCHANGED ra_result
          ELSE /\ ra_pc' = "returned"
               /\ ra_result' = FALSE
               /\ UNCHANGED <<ra_rows, asso_id>>
    /\ UNCHANGED <<ra_rows0, ra_context, ra_raised>>
    /\ UNCHANGED <<wfVars, dbVars, rtVars, rcVars>>

\* if not context["with_parameters"]: return True
RaNoParameters ==
    /\ ra_pc = "if_with_parameters"
    /\ ~ra_context.with_parameters
    /\ ra_pc' = "returned"
    /\ ra_result' = TRUE
    /\ UNCHANGED <<ra_rows, ra_rows0, ra_context, asso_id, ra_calls, ra_raised>>
    /\ UNCHANGED <<wfVars, dbVars, rtVars, rcVars>>

\* What leaves handle when router_association_update raises: the clause
\* "except exceptions as e" names the horizon module imported at the top of
\* the file, not an exception class.  Python 2 matches no exception against it
\* and the raised one propagates; Python 3 raises TypeError at the clause.
RaUncaught(py) == IF py = "python2" THEN "Exception" ELSE "TypeError"

\* router_association_update(request, bgpvpn_id, asso_id, advertise_extra_routes=...)
\* and "return True"; if it raises, the exception leaves handle: the body of
\* the except clause (the delete, exceptions.handle, return False) does not run.
RaUpdate(ok, py) ==
    /\ ra_pc = "if_with_parameters"
    /\ ra_context.with_parameters
    /\ ra_calls' = Append(ra_calls, [op |-> "update", ok |-> ok])
    /\ IF ok
          THEN /\ ra_rows' = {IF a.id = asso_id
                                 THEN [a EXCEPT !.advertise_extra_routes =
                                           ra_context.advertise_extra_routes]
                                 ELSE a : a \in ra_rows}
               /\ ra_pc' = "returned"
               /\ ra_result' = TRUE
               /\ UNCHANGED ra_raised
          ELSE /\ ra_pc' = "raised"
               /\ ra_raised' = RaUncaught(py)
               /\ UNCHANGED <<ra_rows, ra_result>>
    /\ UNCHANGED <<ra_rows0, ra_context, asso_id>>
    /\ UNCHANGED <<wfVars, dbVars, rtVars, rcVars>>

RaNext ==
    \/ \E ok \in BOOLEAN, default \in BOOLEAN : RaCreate(ok, default)
    \/ RaNoParameters
    \/ \E ok \in BOOLEAN, py \in Interpreters : RaUpdate(ok, py)

\* The workflow is not exercised.
WfOff ==
    /\ assocs = [t \in AssociationTypes |-> {}]
    /\ assocs0 = assocs
    /\ data = <<>>
    /\ pc = "off"
    /\ association_type = "none"
    /\ old_associations = {}
    /\ to_add_associations = {}
    /\ to_remove_associations = {}
    /\ added = {}
    /\ removed = {}
    /\ resource = 0
    /\ asso_list = {}
    /\ action = FALSE
    /\ result = "none"
    /\ log = <<>>

Init == WfInit /\ DbOff /\ RtOff /\ RcOff /\ RaOff

Next == WfNext

Spec == Init /\ [][Next]_vars

DbSpecInit == WfOff /\ DbInit /\ RtOff /\ RcOff /\ RaOff

DbSpec == DbSpecInit /\ [][DbNext]_vars

RtrdInit == WfOff /\ DbOff /\ RtInit /\ RcOff /\ RaOff

RtrdSpec == RtrdInit /\ [][RtNext]_vars

RaceInit == WfOff /\ DbOff /\ RtOff /\ RcInit /\ RaOff

RaceSpec == RaceInit /\ [][RcNext]_vars

RaInitAll == WfOff /\ DbOff /\ RtOff /\ RcOff /\ RaInit

RaSpec == RaInitAll /\ [][RaNext]_vars


(***************************************************************************)
(* Properties of UpdateBgpVpnAssociations (checked under Spec).            *)
(***************************************************************************)
\* set(data["%ss_association" % t])
Desired(t) == Range(data[DataKey(t)])

\* The resource ids associated when handle was entered.
Current(t) == ResourceIds(assocs0[t])

InHandleType == pc \in {"add", "remove", "delete"}

Started(t) == \E i \in DOMAIN log : log[i].type = t

Failed(t) == \E i \in DOMAIN log : log[i].type = t /\ ~log[i].ok

\* _handle_type(t) was called and returned without raising.
Finished(t) ==
    /\ Started(t)
    /\ ~Failed(t)
    /\ ~(association_type = t /\ InHandleType)

Calls(op, t, r) ==
    Cardinality({i \in DOMAIN log : log[i].op = op /\ log[i].type = t /\ log[i].res = r})

\* The first listing of a _handle_type call carries no resource; those of the
\* remove loop carry the resource they look up.
IsInitialList(c) == c.op = "list" /\ c.res = 0

\* C1: inside _handle_type the deltas are toAdd = desired - current and
\* toRemove = current - desired, they are disjoint, and desired =
\* (current - toRemove) + toAdd; once _handle_type has returned without a failing
\* call, the resource ids associated are exactly the desired ones.
C1_DeltasReachDesired ==
    /\ InHandleType =>
         LET D == Desired(association_type)
             cur == Current(association_type)
         IN  /\ old_associations = cur
             /\ to_add_associations = D \ cur
             /\ to_remove_associations = cur \ D
             /\ to_add_associations \cap to_remove_associations = {}
             /\ D = (cur \ to_remove_associations) \cup to_add_associations
    /\ \A t \in AssociationTypes :
         Finished(t) => ResourceIds(assocs[t]) = Desired(t)

\* A reconcile that both added and removed has returned, and one with an empty
\* desired list has emptied the associations it found.
C1_Witness ==
    /\ pc = "returned"
    /\ result = TRUE
    /\ Finished("network")
    /\ Desired("network") \ Current("network") # {}
    /\ Current("network") \ Desired("network") # {}
    /\ Finished("router")
    /\ Desired("router") = {}
    /\ Current("router") # {}
    /\ assocs["router"] = {}

\* C2: a reconcile of one type in which no call failed has issued exactly one create
\* call per id of desired - current, exactly one delete call per id of
\* current - desired, and no other create or delete call.
C2_ExactCalls ==
    \A t \in AssociationTypes :
        Finished(t) =>
            \A r \in Resources :
                /\ Calls("create", t, r) = (IF r \in Desired(t) \ Current(t) THEN 1 ELSE 0)
                /\ Calls("delete", t, r) = (IF r \in Current(t) \ Desired(t) THEN 1 ELSE 0)

\* A finished reconcile whose desired list repeats an id it had to add, and that
\* also had an id to remove.
C2_Witness ==
    \E t \in AssociationTypes :
        /\ Finished(t)
        /\ Len(data[DataKey(t)]) > Cardinality(Desired(t))
        /\ Desired(t) \ Current(t) # {}
        /\ Current(t) \ Desired(t) # {}

\* C3: handle returns True exactly when one of the two keys is in the request and
\* no list, create or delete call raised; with neither key it returns False and has
\* issued no call.
C3_HandleResult ==
    pc = "returned" =>
        /\ result = TRUE <=> (DOMAIN data # {} /\ \A i \in DOMAIN log : log[i].ok)
        /\ DOMAIN data = {} => (result = FALSE /\ log = <<>>)

\* handle has returned True for a request with both keys, after adding and deleting.
C3_Witness ==
    /\ pc = "returned"
    /\ result = TRUE
    /\ DOMAIN data = DataKeys
    /\ \E i \in DOMAIN log : log[i].op = "create"
    /\ \E i \in DOMAIN log : log[i].op = "delete"

\* C9: a failing create call is the last call of the request: no create and no
\* delete follows it, handle returns False, and what the earlier creates of that
\* reconcile added is still associated.
C9_CreateFailureAborts ==
    \A i \in DOMAIN log :
        (log[i].op = "create" /\ ~log[i].ok) =>
            /\ i = Len(log)
            /\ pc = "returned"
            /\ result = FALSE
            /\ \A j \in 1..(i - 1) :
                   (log[j].op = "create" /\ log[j].type = log[i].type) =>
                       log[j].res \in ResourceIds(assocs[log[i].type])

\* The second create of a reconcile failed after the first succeeded.
C9_Witness ==
    \E i \in DOMAIN log :
        /\ log[i].op = "create"
        /\ ~log[i].ok
        /\ \E j \in 1..(i - 1) :
               /\ log[j].op = "create"
               /\ log[j].type = log[i].type
               /\ log[j].ok

\* C10: when the first listing of a type fails, no create and no delete call is
\* issued for that type, its associations are the ones handle found, and handle
\* returns False.
C10_ListFailureAborts ==
    \A i \in DOMAIN log :
        (IsInitialList(log[i]) /\ ~log[i].ok) =>
            /\ \A j \in DOMAIN log :
                   log[j].type = log[i].type => log[j].op = "list"
            /\ assocs[log[i].type] = assocs0[log[i].type]
            /\ pc = "returned"
            /\ result = FALSE

\* The first listing of the routers failed, with routers to add and to remove, after
\* the networks had been reconciled.
C10_Witness ==
    \E i \in DOMAIN log :
        /\ IsInitialList(log[i])
        /\ ~log[i].ok
        /\ log[i].type = "router"
        /\ Desired("router") \ Current("router") # {}
        /\ Current("router") \ Desired("router") # {}
        /\ \E j \in DOMAIN log : log[j].op = "create" /\ log[j].type = "network"

\* C11: in the reconcile of one type every create call precedes every delete
\* call: no create follows a delete, and when a delete is issued every id of
\* desired - current has had its create call.
C11_AddsBeforeRemoves ==
    \A i \in DOMAIN log :
        log[i].op = "delete" =>
            /\ \A j \in DOMAIN log :
                   (j > i /\ log[j].type = log[i].type) => log[j].op # "create"
            /\ \A r \in Desired(log[i].type) \ Current(log[i].type) :
                   \E j \in 1..(i - 1) :
                       /\ log[j].op = "create"
                       /\ log[j].type = log[i].type
                       /\ log[j].res = r

\* A reconcile has issued a create and then a delete.
C11_Witness ==
    \E i, j \in DOMAIN log :
        /\ i < j
        /\ log[i].op = "create"
        /\ log[j].op = "delete"
        /\ log[i].type = log[j].type

(***************************************************************************)
(* Properties of the route-target serialisation (checked under RtrdSpec).  *)
(***************************************************************************)
NoComma(list) == \A i \in DOMAIN list : \A j \in DOMAIN list[i] : list[i][j] # ","

\* C5, as claimed: every list of comma-free strings is read back as it was written.
C5_RoundTripEveryList ==
    (rt_pc = "back" /\ NoComma(rt_list)) => rt_back = rt_list

\* C5, amended: every list of comma-free strings other than [''] is read back as it
\* was written, the empty list being written as '' and read back as the empty list;
\* [''] is written as '' too, and read back as the empty list.
C5_RoundTrip ==
    /\ (rt_pc = "back" /\ NoComma(rt_list) /\ rt_list # << <<>> >>) => rt_back = rt_list
    /\ (rt_pc = "back" /\ rt_list = <<>>) => (rt_str = <<>> /\ rt_back = <<>>)
    /\ (rt_pc = "back" /\ rt_list = << <<>> >>) => (rt_str = <<>> /\ rt_back = <<>>)

\* A list of two comma-free strings has been written as "a,aa" and read back.
C5_Witness ==
    /\ rt_pc = "back"
    /\ rt_list = << <<"a">>, <<"a", "a">> >>
    /\ rt_str = <<"a", ",", "a", "a">>
    /\ rt_back = rt_list

(***************************************************************************)
(* Properties of BGPVPNPluginDb (checked under DbSpec).                    *)
(***************************************************************************)
RowsByIdPre(id) == {r \in tablePre : r.id = id}

\* C4: create with route_targets empty or absent raises
\* BGPVPNConnectionMissingRouteTarget and writes nothing.
C4_MissingRouteTarget ==
    (/\ call.op = "create"
     /\ \/ "route_targets" \notin DOMAIN call.body
        \/ Len(call.body["route_targets"]) = 0)
    => (error = "BGPVPNConnectionMissingRouteTarget" /\ table = tablePre)

\* C6: an update of an existing row leaves every column its dict does not name as
\* a get of the row showed it before, and leaves every other row as it was.
C6_UpdateFrame ==
    (call.op = "update" /\ RowsByIdPre(call.id) # {}) =>
        LET before == CHOOSE r \in RowsByIdPre(call.id) : TRUE
            afters == {r \in table : r.oid = before.oid}
        IN  /\ Cardinality(afters) = 1
            /\ \A after \in afters :
                   /\ RowsById(after.id) = {after}
                   /\ \A f \in Columns \ DOMAIN call.body :
                          make_bgpvpn_connection_dict(after)[f] =
                              make_bgpvpn_connection_dict(before)[f]
                   /\ table \ {after} = tablePre \ {before}

\* An update naming only the name has changed it, in a table of two rows.
C6_Witness ==
    /\ call.op = "update"
    /\ error = "none"
    /\ DOMAIN call.body = {"name"}
    /\ Cardinality(table) = 2
    /\ table # tablePre

\* C7: delete of an id the table lacks raises BGPVPNConnectionNotFound and leaves
\* the rows as they were; delete of an id it holds removes that row and returns it.
C7_DeleteNotFound ==
    call.op = "delete" =>
        IF RowsByIdPre(call.id) = {}
           THEN error = "BGPVPNConnectionNotFound" /\ table = tablePre
           ELSE /\ error = "none"
                /\ ret \in RowsByIdPre(call.id)
                /\ table = tablePre \ {ret}

\* C8: every stored row has the id and the tenant_id create gave it.
C8_IdTenantImmutable ==
    \A r \in table :
        [oid |-> r.oid, id |-> r.id, tenant_id |-> r.tenant_id] \in created


(***************************************************************************)
(* Properties of two interleaved requests                                  *)
(***************************************************************************)
RcDesired(c) == Range(rc[c].associations)

RcBothTrue == \A c \in Callers : rc[c].pc = "returned" /\ rc[c].result = TRUE

\* C12: two requests for the same VPN and type are not coordinated.  When both
\* have returned True the association set lies between the intersection and
\* the union of the two desired sets, and nothing more: an interleaving in
\* which it equals neither desired set is reachable (C12_Witness).
C12_Uncoordinated ==
    RcBothTrue =>
        /\ (RcDesired("A") \cap RcDesired("B")) \subseteq ResourceIds(rc_rows)
        /\ ResourceIds(rc_rows) \subseteq (RcDesired("A") \cup RcDesired("B"))

\* Both requests, with different desired sets, have returned True and the
\* association set equals neither desired set.
C12_Witness ==
    /\ RcBothTrue
    /\ RcDesired("A") # RcDesired("B")
    /\ \A c \in Callers : ResourceIds(rc_rows) # RcDesired(c)

(***************************************************************************)
(* Properties of RouterAssociation.handle                                  *)
(***************************************************************************)
RaCalled(op, ok) == \E i \in DOMAIN ra_calls : ra_calls[i] = [op |-> op, ok |-> ok]

RaLeft == ra_pc \in {"returned", "raised"}

\* C13: handle leaves no half-configured association behind.  When the create
\* succeeded, with_parameters is set and the update raised, handle has
\* returned False and the rows are those before the call; and whenever handle
\* returned False the rows are those before the call.
C13_NoHalfConfigured ==
    /\ (/\ RaLeft
        /\ RaCalled("create", TRUE)
        /\ ra_context.with_parameters
        /\ RaCalled("update", FALSE))
           => /\ ra_pc = "returned"
              /\ ra_result = FALSE
              /\ ra_rows = ra_rows0
    /\ (ra_pc = "returned" /\ ra_result = FALSE) => ra_rows = ra_rows0

====
